---- MODULE Spec2Model ----
(***************************************************************************)
(* skydock: the bridge daemon of src/main.go.  main restores the running   *)
(* containers into skydns, then NumberOfHandlers eventHandler goroutines   *)
(* drain the docker event channel; every successful sendService spawns a   *)
(* heartbeat goroutine that refreshes the TTL of its uuid.                 *)
(***************************************************************************)
EXTENDS Integers, Sequences, FiniteSets, Bags, TLC

\* ------------------------------------------------------------------ bounds
MaxInputs == 2          \* containers at startup plus events of the stream
NumberOfHandlers == 2   \* params.NumberOfHandlers (flag "workers")
MaxTTL == 5             \* the settings tried have -MaxTTL <= TTL <= MaxTTL
MaxBeat == 2            \* ... and -1 <= Beat <= MaxBeat

DefaultTTL == 60        \* flag "ttl"

\* utils.Truncate(ContainerId): the uuids of the containers of the host
UUIDs == {1, 2}
\* event.Status: the statuses of the switch in eventHandler, and one the
\* switch has no case for
Statuses == {"start", "restart", "die", "stop", "kill", "pause"}
\* the events of a run are about one container, the containers running at
\* startup are any of the host's
Events == [Status : Statuses, ContainerId : {1}]

Main == 0
Workers == 1..NumberOfHandlers
Procs == {Main} \cup Workers

Running == -1           \* exitCode while the process has not exited

RECURSIVE SeqsUpTo(_, _)
SeqsUpTo(S, n) ==
    IF n = 0 THEN {<<>>}
    ELSE LET shorter == SeqsUpTo(S, n - 1)
         IN  shorter \cup {Append(s, x) : s \in shorter, x \in S}

Injective(s) == \A i, j \in 1..Len(s) : i # j => s[i] # s[j]

VARIABLES
    containers,   \* FetchAllContainers(): the uuids running at startup
    stream,       \* the events the host puts on the channel, in emitted order
    taken,        \* number of events received from the channel so far
    closed,       \* the event channel has been closed
    skydnsRecs,   \* uuids that have a record in skydns
    initRecs,     \* the records skydns held when the daemon started
    running,      \* the LiveSet: map[string]struct{} running
    runningLock,  \* the mutex runningLock: TRUE while a heartbeat holds it
    proc,         \* main and the eventHandler goroutines: pc and current item
    ri,           \* restoreContainers: containers already iterated over
    hbs,          \* the heartbeat goroutines: a bag of their local states
    hist,         \* per item (container of restore / event): outcome, error
    exitCode,     \* Running, or the status the process exited with
    params,       \* the settings (Params): TTL, Beat, Domain, url and name
    built         \* the clients main has constructed so far

vars == <<containers, stream, taken, closed, skydnsRecs, initRecs, running,
          runningLock, proc, ri, hbs, hist, exitCode, params, built>>

\* Items: containers of restore are 1..Len(containers), events follow.
NItems == Len(containers) + Len(stream)
EventItem(i) == Len(containers) + i
ItemUUID(k) ==
    IF k <= Len(containers) THEN containers[k]
    ELSE stream[k - Len(containers)].ContainerId

\* ------------------------------------------------------ skydns and docker
\* skydns.Add: ConflictingUUID for an existing key; any call may fail.
AddResults(u) ==
    IF u \in skydnsRecs THEN {"conflict", "err"} ELSE {"ok", "err"}
\* skydns.Update: only an existing record can be refreshed.
UpdateResults(u) == IF u \in skydnsRecs THEN {"ok", "err"} ELSE {"err"}
\* skydns.Delete
DeleteResults(u) == IF u \in skydnsRecs THEN {"ok", "err"} ELSE {"err"}
\* dockerClient.FetchContainer followed by plugins.createService
FetchResults == {"ok", "notTagged", "err"}
PolicyResults == {"ok", "err"}

\* the uuids the run is about: skydns records of other uuids are never read
Touched ==
    {containers[i] : i \in 1..Len(containers)}
       \cup {stream[i].ContainerId : i \in 1..Len(stream)}

\* ---------------------------------------------------------------- settings
\* the flags: "" is a flag left unset
TTLs == (-MaxTTL..MaxTTL) \cup {DefaultTTL}
Beats == -1..MaxBeat
Settings ==
    [TTL : TTLs, Beat : Beats, Domain : {"", "domain"},
     SkydnsUrl : {"", "url"}, SkydnsContainerName : {"", "name"}]

\* Go's integer division truncates toward zero
GoDiv(a, b) == IF a >= 0 THEN a \div b ELSE -((-a) \div b)

\* three quarters of the TTL computed in one division
DerivedBeatOneDivision(ttl) == GoDiv(3 * ttl, 4)

\* params.TTL - (params.TTL / 4)
DerivedBeat(ttl) == ttl - GoDiv(ttl, 4)

\* a derived Beat that is raised to 1 when the formula gives less
WithBeatClamped(P) ==
    [P EXCEPT !.Beat = IF P.Beat >= 1 THEN P.Beat
                       ELSE IF DerivedBeat(P.TTL) < 1 THEN 1
                       ELSE DerivedBeat(P.TTL)]

\* validateSettings, first statement: a Beat below 1 is derived from the TTL
WithBeat(P) ==
    [P EXCEPT !.Beat = IF P.Beat < 1 THEN DerivedBeat(P.TTL) ELSE P.Beat]

\* validateSettings, third statement: no url and no name, url from the
\* environment variable SKYDNS_PORT_8080_TCP_ADDR
WithUrl(P) ==
    IF P.SkydnsUrl = "" /\ P.SkydnsContainerName = ""
    THEN [P EXCEPT !.SkydnsUrl = "env"]
    ELSE P

\* the settings main runs with when started with a domain and a skydns url
DefaultSettings ==
    WithUrl(WithBeat([TTL |-> DefaultTTL, Beat |-> 0, Domain |-> "domain",
                      SkydnsUrl |-> "url", SkydnsContainerName |-> ""]))

\* what main constructs before restoreContainers
Clients == {"plugins", "dockerClient", "skydns"}

\* ------------------------------------------------------------------- Init
\* main has come through its bootstrap and is about to restore
Init ==
    /\ containers \in {s \in SeqsUpTo(UUIDs, MaxInputs) : Injective(s)}
    /\ stream \in SeqsUpTo(Events, MaxInputs - Len(containers))
    /\ taken = 0
    /\ closed = FALSE
    /\ skydnsRecs \in SUBSET Touched
    /\ initRecs = skydnsRecs
    /\ running = {}
    /\ runningLock = FALSE
    /\ proc = [p \in Procs |->
                 IF p = Main THEN [pc |-> "restoreStart", item |-> 0]
                 ELSE [pc |-> "none", item |-> 0]]
    /\ ri = 0
    /\ hbs = EmptyBag
    /\ hist = [k \in 1..NItems |-> [out |-> "none", err |-> "none"]]
    /\ exitCode = Running
    /\ params = DefaultSettings
    /\ built = Clients

\* the process at the start of main, for any settings, on a host with one
\* running container that is then stopped or started again
BootInit ==
    /\ containers = <<1>>
    /\ stream \in {<<[Status |-> s, ContainerId |-> 1]>> :
                        s \in {"stop", "start"}}
    /\ taken = 0
    /\ closed = FALSE
    /\ skydnsRecs \in SUBSET Touched
    /\ initRecs = skydnsRecs
    /\ running = {}
    /\ runningLock = FALSE
    /\ proc = [p \in Procs |->
                 IF p = Main THEN [pc |-> "validate", item |-> 0]
                 ELSE [pc |-> "none", item |-> 0]]
    /\ ri = 0
    /\ hbs = EmptyBag
    /\ hist = [k \in 1..NItems |-> [out |-> "none", err |-> "none"]]
    /\ exitCode = Running
    /\ params \in Settings
    /\ built = {}

\* a fatal that prints the error and returns to its caller
AliveAlways == TRUE

\* os.Exit has not been called: the goroutines of the process still run
Alive == exitCode = Running

\* the handler of item k is over: what it came to, and the error it returned
Return(k, o, e) == [hist EXCEPT ![k] = [out |-> o, err |-> e]]

\* where a goroutine continues after the item it was handling
Rest(p) == IF p = Main THEN [pc |-> "restore", item |-> 0]
           ELSE [pc |-> "idle", item |-> 0]

\* --------------------------------------------------------------- heartbeat
\* go heartbeat(uuid): a new goroutine, not yet at runningLock.Lock()
NewHb(u) == [uuid |-> u, pc |-> "start", errorCount |-> 0, ok |-> FALSE]
Spawn(u) == hbs (+) SetToBag({NewHb(u)})

\* the goroutine in local state h moves to local state g
Move(h, g) == (hbs (-) SetToBag({h})) (+) SetToBag({g})

\* a goroutine that has returned: its locals are gone
Ended(h, how) == [uuid |-> h.uuid, pc |-> how, errorCount |-> 0, ok |-> FALSE]

\* runningLock.Lock() on entry
HbLock(h) ==
    /\ Alive
    /\ h.pc = "start"
    /\ ~runningLock
    /\ runningLock' = TRUE
    /\ hbs' = Move(h, [h EXCEPT !.pc = "locked"])
    /\ UNCHANGED <<params, built, initRecs, containers, stream, taken, closed,
                   skydnsRecs, running, proc, ri, hist, exitCode>>

\* the membership test left out: every invocation inserts
ExistsNever(u) == FALSE

\* _, exists := running[uuid]
Exists(u) == u \in running

\* the deferred delete registered before the check: the early return runs it
HbCheckDeferFirst(h) ==
    /\ Alive
    /\ h.pc = "locked"
    /\ IF Exists(h.uuid)
       THEN /\ hbs' = Move(h, Ended(h, "noop"))
            /\ running' = running \ {h.uuid}
       ELSE /\ running' = running \cup {h.uuid}
            /\ hbs' = Move(h, [h EXCEPT !.pc = "loop"])
    /\ runningLock' = FALSE
    /\ UNCHANGED <<params, built, initRecs, containers, stream, taken, closed,
                   skydnsRecs, proc, ri, hist, exitCode>>

\* the early return taken without runningLock.Unlock()
HbCheckNoUnlock(h) ==
    /\ Alive
    /\ h.pc = "locked"
    /\ IF Exists(h.uuid)
       THEN /\ hbs' = Move(h, Ended(h, "noop"))
            /\ UNCHANGED <<running, runningLock>>
       ELSE /\ running' = running \cup {h.uuid}
            /\ hbs' = Move(h, [h EXCEPT !.pc = "loop"])
            /\ runningLock' = FALSE
    /\ UNCHANGED <<params, built, initRecs, containers, stream, taken, closed,
                   skydnsRecs, proc, ri, hist, exitCode>>

\* the check-and-insert under the lock, then Unlock
HbCheck(h) ==
    /\ Alive
    /\ h.pc = "locked"
    /\ IF Exists(h.uuid)
       THEN /\ hbs' = Move(h, Ended(h, "noop"))
            /\ UNCHANGED running
       ELSE /\ running' = running \cup {h.uuid}
            /\ hbs' = Move(h, [h EXCEPT !.pc = "loop"])
    /\ runningLock' = FALSE
    /\ UNCHANGED <<params, built, initRecs, containers, stream, taken, closed,
                   skydnsRecs, proc, ri, hist, exitCode>>

\* what the loop body does with the result of updateService
AfterUpdate(h, res) ==
    IF res = "err"
    THEN [h EXCEPT !.errorCount = @ + 1, !.pc = "exit", !.ok = FALSE]
    ELSE [h EXCEPT !.ok = TRUE]

\* a ticker that delivers ticks whatever the interval
TicksAlways(beat) == TRUE

\* time.Tick(time.Duration(params.Beat) * time.Second): for an interval of 0
\* or less it returns a nil channel, and the range over it blocks for ever
Ticks(beat) == beat >= 1

\* one tick of the loop
HbTick(h) ==
    /\ Alive
    /\ h.pc = "loop"
    /\ Ticks(params.Beat)
    /\ IF h.errorCount > 10
       THEN hbs' = Move(h, [h EXCEPT !.pc = "exit", !.ok = FALSE])
       ELSE \E res \in UpdateResults(h.uuid) :
                hbs' = Move(h, AfterUpdate(h, res))
    /\ UNCHANGED <<params, built, initRecs, containers, stream, taken, closed,
                   skydnsRecs, running, runningLock, proc, ri, hist,
                   exitCode>>

\* the deferred function: runningLock.Lock()
HbDeferLock(h) ==
    /\ Alive
    /\ h.pc = "exit"
    /\ ~runningLock
    /\ runningLock' = TRUE
    /\ hbs' = Move(h, [h EXCEPT !.pc = "exitLocked"])
    /\ UNCHANGED <<params, built, initRecs, containers, stream, taken, closed,
                   skydnsRecs, running, proc, ri, hist, exitCode>>

\* a deferred function that unlocks without the delete
HbDeferNoDelete(h) ==
    /\ Alive
    /\ h.pc = "exitLocked"
    /\ runningLock' = FALSE
    /\ hbs' = Move(h, Ended(h, "done"))
    /\ UNCHANGED <<params, built, initRecs, containers, stream, taken, closed,
                   skydnsRecs, running, proc, ri, hist, exitCode>>

\* the deferred function: delete(running, uuid); runningLock.Unlock()
HbDeferDelete(h) ==
    /\ Alive
    /\ h.pc = "exitLocked"
    /\ running' = running \ {h.uuid}
    /\ runningLock' = FALSE
    /\ hbs' = Move(h, Ended(h, "done"))
    /\ UNCHANGED <<params, built, initRecs, containers, stream, taken, closed,
                   skydnsRecs, proc, ri, hist, exitCode>>

\* ------------------------------------------- sendService / addService
\* restoreContainers returning at the first failure instead of continuing
CompleteOrReturn(p, k, o, e) ==
    /\ proc' = [proc EXCEPT ![p] = Rest(p)]
    /\ hist' = Return(k, o, e)
    /\ ri' = IF p = Main
             THEN (IF e = "err" THEN Len(containers) ELSE ri + 1)
             ELSE ri

\* the goroutine p is done with item k: outcome o, the handler returning e
Complete(p, k, o, e) ==
    /\ proc' = [proc EXCEPT ![p] = Rest(p)]
    /\ hist' = Return(k, o, e)
    /\ ri' = IF p = Main THEN ri + 1 ELSE ri

\* the item the goroutine is at when it calls FetchContainer
FetchItem(p) == IF p = Main THEN ri + 1 ELSE proc[p].item

AtFetch(p) ==
    IF p = Main THEN proc[p].pc = "restore" /\ ri < Len(containers)
    ELSE proc[p].pc = "fetch"

\* ErrImageNotTagged returned like any other error
FetchErrorAlways(res) == "err"

\* the error addService returns (restoreContainers logs) after FetchContainer
FetchError(res) == IF res = "notTagged" THEN "nil" ELSE "err"

\* dockerClient.FetchContainer, then plugins.createService
Fetch(p) ==
    /\ Alive
    /\ AtFetch(p)
    /\ LET k == FetchItem(p) IN
       \E res \in FetchResults :
          IF res # "ok"
          THEN \* ErrImageNotTagged: skipped; other errors: returned, logged
               /\ Complete(p, k, IF res = "notTagged" THEN "notTagged"
                                 ELSE "fetchErr", FetchError(res))
               /\ UNCHANGED exitCode
          ELSE \E pol \in PolicyResults :
               IF pol = "err"
               THEN \* fatal(err)
                    /\ exitCode' = 1
                    /\ hist' = Return(k, "policyErr", "fatal")
                    /\ UNCHANGED <<proc, ri>>
               ELSE /\ proc' = [proc EXCEPT ![p] = [pc |-> "add", item |-> k]]
                    /\ UNCHANGED <<hist, ri, exitCode>>
    /\ UNCHANGED <<params, built, initRecs, containers, stream, taken, closed,
                   skydnsRecs, running, runningLock, hbs>>

\* a sendService that starts the heartbeat whatever Add answered
AddAlwaysSpawns(p) ==
    /\ Alive
    /\ proc[p].pc = "add"
    /\ LET k == proc[p].item
           u == ItemUUID(k)
       IN \E res \in AddResults(u) :
          CASE res = "ok" ->
                 /\ skydnsRecs' = skydnsRecs \cup {u}
                 /\ hbs' = Spawn(u)
                 /\ Complete(p, k, "added", "nil")
            [] res = "conflict" ->
                 /\ proc' = [proc EXCEPT ![p].pc = "update"]
                 /\ UNCHANGED <<skydnsRecs, hbs, ri, hist>>
            [] OTHER ->
                 /\ hbs' = Spawn(u)
                 /\ Complete(p, k, "addErr", "err")
                 /\ UNCHANGED skydnsRecs
    /\ UNCHANGED <<params, built, initRecs, containers, stream, taken, closed,
                   running, runningLock, exitCode>>

\* sendService: skydns.Add
Add(p) ==
    /\ Alive
    /\ proc[p].pc = "add"
    /\ LET k == proc[p].item
           u == ItemUUID(k)
       IN \E res \in AddResults(u) :
          CASE res = "ok" ->
                 /\ skydnsRecs' = skydnsRecs \cup {u}
                 /\ hbs' = Spawn(u)
                 /\ Complete(p, k, "added", "nil")
            [] res = "conflict" ->
                 /\ proc' = [proc EXCEPT ![p].pc = "update"]
                 /\ UNCHANGED <<skydnsRecs, hbs, ri, hist>>
            [] OTHER ->
                 /\ Complete(p, k, "addErr", "err")
                 /\ UNCHANGED <<skydnsRecs, hbs>>
    /\ UNCHANGED <<params, built, initRecs, containers, stream, taken, closed,
                   running, runningLock, exitCode>>

\* sendService returning the error of updateService
UpdateChecksError(p) ==
    /\ Alive
    /\ proc[p].pc = "update"
    /\ LET k == proc[p].item
           u == ItemUUID(k)
       IN \E res \in UpdateResults(u) :
             IF res = "ok"
             THEN /\ hbs' = Spawn(u)
                  /\ Complete(p, k, "conflict", "nil")
             ELSE /\ UNCHANGED hbs
                  /\ Complete(p, k, "conflict", "err")
    /\ UNCHANGED <<params, built, initRecs, containers, stream, taken, closed,
                   skydnsRecs, running, runningLock, exitCode>>

\* sendService: updateService after ErrConflictingUUID, result dropped
Update(p) ==
    /\ Alive
    /\ proc[p].pc = "update"
    /\ LET k == proc[p].item
           u == ItemUUID(k)
       IN \E res \in UpdateResults(u) :
             /\ hbs' = Spawn(u)
             /\ Complete(p, k, "conflict", "nil")
    /\ UNCHANGED <<params, built, initRecs, containers, stream, taken, closed,
                   skydnsRecs, running, runningLock, exitCode>>

\* a removeService that also takes the uuid out of the LiveSet
DeleteStopsHeartbeat(p) ==
    /\ Alive
    /\ proc[p].pc = "delete"
    /\ LET k == proc[p].item
           u == ItemUUID(k)
       IN \E res \in DeleteResults(u) :
             IF res = "ok"
             THEN /\ skydnsRecs' = skydnsRecs \ {u}
                  /\ running' = running \ {u}
                  /\ Complete(p, k, "deleted", "nil")
             ELSE /\ UNCHANGED <<skydnsRecs, running>>
                  /\ Complete(p, k, "deleteErr", "err")
    /\ UNCHANGED <<params, built, initRecs, containers, stream, taken, closed,
                   runningLock, hbs, exitCode>>

\* removeService: skydns.Delete
Delete(p) ==
    /\ Alive
    /\ proc[p].pc = "delete"
    /\ LET k == proc[p].item
           u == ItemUUID(k)
       IN \E res \in DeleteResults(u) :
             IF res = "ok"
             THEN /\ skydnsRecs' = skydnsRecs \ {u}
                  /\ Complete(p, k, "deleted", "nil")
             ELSE /\ UNCHANGED skydnsRecs
                  /\ Complete(p, k, "deleteErr", "err")
    /\ UNCHANGED <<params, built, initRecs, containers, stream, taken, closed,
                   running, runningLock, hbs, exitCode>>

\* ------------------------------------------------------------ eventHandler
\* case "die", "stop", "kill"
IsRemove(status) == status \in {"die", "stop", "kill"}
\* a switch whose add case is the default case
IsAddByDefault(status) == status \notin {"die", "stop", "kill"}

\* case "start", "restart"
IsAdd(status) == status \in {"start", "restart"}

\* The goroutines blocked in "range c" are indistinguishable: the channel
\* hands its next event (or its close) to the first of them.
Receiver(w) ==
    /\ w \in Workers
    /\ proc[w].pc = "idle"
    /\ \A v \in Workers : v < w => proc[v].pc # "idle"

\* for event := range c, and the switch on event.Status
Take(w) ==
    /\ Alive
    /\ Receiver(w)
    /\ taken < Len(stream)
    /\ taken' = taken + 1
    /\ LET k == EventItem(taken + 1)
           status == stream[taken + 1].Status
       IN CASE IsRemove(status) ->
                 /\ proc' = [proc EXCEPT ![w] = [pc |-> "delete", item |-> k]]
                 /\ UNCHANGED hist
            [] IsAdd(status) ->
                 /\ proc' = [proc EXCEPT ![w] = [pc |-> "fetch", item |-> k]]
                 /\ UNCHANGED hist
            [] OTHER ->
                 /\ hist' = Return(k, "ignored", "nil")
                 /\ UNCHANGED proc
    /\ UNCHANGED <<params, built, initRecs, containers, stream, closed,
                   skydnsRecs, running, runningLock, ri, hbs, exitCode>>

\* the range loop ends on the closed, drained channel; group.Done()
WorkerExit(w) ==
    /\ Alive
    /\ Receiver(w)
    /\ taken = Len(stream)
    /\ closed
    /\ proc' = [proc EXCEPT ![w].pc = "exited"]
    /\ UNCHANGED <<params, built, initRecs, containers, stream, taken, closed,
                   skydnsRecs, running, runningLock, ri, hbs, hist, exitCode>>

\* the host ends the event stream: the channel is closed behind its last
\* event, which a worker can observe only once the channel is drained
HostClose ==
    /\ Alive
    /\ proc[Main].pc = "wait"
    /\ taken = Len(stream)
    /\ ~closed
    /\ closed' = TRUE
    /\ UNCHANGED <<params, built, initRecs, containers, stream, taken,
                   skydnsRecs, running, runningLock, proc, ri, hbs, hist,
                   exitCode>>

\* -------------------------------------------------------------------- main
\* what the bootstrap of main leaves alone
BootFrame ==
    UNCHANGED <<containers, stream, taken, closed, skydnsRecs, initRecs,
                running, runningLock, ri, hbs, hist>>

\* a validateSettings without the test of params.Domain
ValidateSettingsNoDomain ==
    /\ Alive
    /\ proc[Main].pc = "validate"
    /\ LET beat == WithBeat(params) IN
       IF beat.SkydnsUrl # "" /\ beat.SkydnsContainerName # ""
       THEN /\ params' = beat
            /\ exitCode' = 1
            /\ UNCHANGED proc
       ELSE /\ params' = WithUrl(beat)
            /\ proc' = [proc EXCEPT ![Main].pc = "newRuntime"]
            /\ UNCHANGED exitCode
    /\ UNCHANGED built
    /\ BootFrame

\* validateSettings, the first call of main
ValidateSettings ==
    /\ Alive
    /\ proc[Main].pc = "validate"
    /\ LET beat == WithBeat(params) IN
       IF beat.SkydnsUrl # "" /\ beat.SkydnsContainerName # ""
       THEN \* fatal: specify 'name' or 'skydns', not both
            /\ params' = beat
            /\ exitCode' = 1
            /\ UNCHANGED proc
       ELSE IF beat.Domain = ""
       THEN \* fatal: Must specify your skydns domain
            /\ params' = WithUrl(beat)
            /\ exitCode' = 1
            /\ UNCHANGED proc
       ELSE /\ params' = WithUrl(beat)
            /\ proc' = [proc EXCEPT ![Main].pc = "newRuntime"]
            /\ UNCHANGED exitCode
    /\ UNCHANGED built
    /\ BootFrame

\* main constructs a client: on an error, fatal
Construct(at, what, next) ==
    /\ Alive
    /\ proc[Main].pc = at
    /\ \E res \in {"ok", "err"} :
          IF res = "ok"
          THEN /\ built' = built \cup what
               /\ proc' = [proc EXCEPT ![Main].pc = next]
               /\ UNCHANGED exitCode
          ELSE /\ exitCode' = 1
               /\ UNCHANGED <<built, proc>>
    /\ UNCHANGED params
    /\ BootFrame

\* plugins, err = newRuntime(params.PluginFile)
NewRuntime == Construct("newRuntime", {"plugins"}, "dockerClient")

\* dockerClient, err = docker.NewClient(params.PathToSocket)
NewDockerClient == Construct("dockerClient", {"dockerClient"}, "lookup")

\* with a container name, the url is the one of the skydns container
LookupSkydns ==
    /\ Alive
    /\ proc[Main].pc = "lookup"
    /\ IF params.SkydnsContainerName # ""
       THEN \E res \in {"ok", "err"} :
               IF res = "ok"
               THEN /\ params' = [params EXCEPT !.SkydnsUrl = "container"]
                    /\ proc' = [proc EXCEPT ![Main].pc = "skydnsClient"]
                    /\ UNCHANGED exitCode
               ELSE /\ exitCode' = 1
                    /\ UNCHANGED <<params, proc>>
       ELSE /\ proc' = [proc EXCEPT ![Main].pc = "skydnsClient"]
            /\ UNCHANGED <<params, exitCode>>
    /\ UNCHANGED built
    /\ BootFrame

\* skydns, err = client.NewClient(params.SkydnsUrl, ...)
NewSkydnsClient == Construct("skydnsClient", {"skydns"}, "restoreStart")

\* dockerClient.FetchAllContainers() in restoreContainers
RestoreStart ==
    /\ Alive
    /\ proc[Main].pc = "restoreStart"
    /\ \E res \in {"ok", "err"} :
          IF res = "ok"
          THEN /\ proc' = [proc EXCEPT ![Main].pc = "restore"]
               /\ UNCHANGED exitCode
          ELSE /\ exitCode' = 1
               /\ UNCHANGED proc
    /\ UNCHANGED <<params, built, initRecs, containers, stream, taken, closed,
                   skydnsRecs, running, runningLock, ri, hbs, hist>>

\* restoreContainers not called (or not waited for)
RestoreSkipped == TRUE

\* restoreContainers has returned nil
RestoreReturned == proc[Main].pc = "restore" /\ ri = Len(containers)

\* GetEvents, group.Add, go eventHandler x NumberOfHandlers
StartWorkers ==
    /\ Alive
    /\ RestoreReturned
    \* main is before GetEvents
    /\ proc[Main].pc \in {"restoreStart", "restore"}
    /\ \A w \in Workers : proc[w].pc = "none"
    /\ proc' = [p \in Procs |->
                  IF p = Main THEN [pc |-> "wait", item |-> 0]
                  ELSE [pc |-> "idle", item |-> 0]]
    /\ UNCHANGED <<params, built, initRecs, containers, stream, taken, closed,
                   skydnsRecs, running, runningLock, ri, hbs, hist, exitCode>>

\* a main that returns without group.Wait()
MainExitNoWait ==
    /\ Alive
    /\ proc[Main].pc = "wait"
    /\ proc' = [proc EXCEPT ![Main].pc = "exited"]
    /\ exitCode' = 0
    /\ UNCHANGED <<params, built, initRecs, containers, stream, taken, closed,
                   skydnsRecs, running, runningLock, ri, hbs, hist>>

\* group.Wait() returns, main returns
MainExit ==
    /\ Alive
    /\ proc[Main].pc = "wait"
    /\ \A w \in Workers : proc[w].pc = "exited"
    /\ proc' = [proc EXCEPT ![Main].pc = "exited"]
    /\ exitCode' = 0
    /\ UNCHANGED <<params, built, initRecs, containers, stream, taken, closed,
                   skydnsRecs, running, runningLock, ri, hbs, hist>>

Hbs == BagToSet(hbs)

Next ==
    \/ RestoreStart
    \/ StartWorkers
    \/ HostClose
    \/ MainExit
    \/ \E p \in Procs : Fetch(p)
    \/ \E p \in Procs : Add(p)
    \/ \E p \in Procs : Update(p)
    \/ \E w \in Workers : Delete(w)
    \/ \E w \in Workers : Take(w)
    \/ \E w \in Workers : WorkerExit(w)
    \/ \E h \in Hbs : HbLock(h)
    \/ \E h \in Hbs : HbCheck(h)
    \/ \E h \in Hbs : HbTick(h)
    \/ \E h \in Hbs : HbDeferLock(h)
    \/ \E h \in Hbs : HbDeferDelete(h)

Spec == Init /\ [][Next]_vars

\* main from its first statement on
BootNext ==
    \/ ValidateSettings
    \/ NewRuntime
    \/ NewDockerClient
    \/ LookupSkydns
    \/ NewSkydnsClient
    \/ Next

BootSpec == BootInit /\ [][BootNext]_vars

\* The Go scheduler runs every goroutine that can run: main and each
\* eventHandler goroutine take their next step if it stays possible.  The
\* host (HostClose) and the tickers of the heartbeats are under no obligation.
GoroutineStep(p) ==
    \/ Fetch(p) \/ Add(p) \/ Update(p) \/ Delete(p)
    \/ Take(p) \/ WorkerExit(p)

FairSpec ==
    /\ Spec
    /\ \A p \in Procs : WF_vars(GoroutineStep(p))
    /\ WF_vars(MainExit)

\* A heartbeat goroutine at runningLock.Lock(), or holding the lock, takes
\* its next step: the holder always unlocks and sync.Mutex lets no waiter
\* starve.  The ticks themselves are under no obligation.
HbLockStep ==
    \E h \in Hbs :
       HbLock(h) \/ HbCheck(h) \/ HbDeferLock(h) \/ HbDeferDelete(h)

FairHbSpec == FairSpec /\ WF_vars(HbLockStep)

\* ================================================================== claims
\* heartbeat goroutines of uuid u whose local state satisfies the pcs
HbAt(u, pcs) == {h \in Hbs : h.uuid = u /\ h.pc \in pcs}
HbCount(u, pcs) ==
    IF HbAt(u, pcs) = {} THEN 0
    ELSE BagCardinality([h \in HbAt(u, pcs) |-> hbs[h]])

\* the goroutine in local state h takes this step
Steps(h) == CopiesIn(h, hbs') < CopiesIn(h, hbs)

\* C1 - Single-writer heartbeat: in every reachable state at most one
\* heartbeat goroutine of a uuid is in its tick loop, and an invocation that
\* finds its uuid in the LiveSet returns at once: the LiveSet and the
\* registry stay as they are and the goroutine never reaches the loop.
SingleWriter ==
    /\ [](\A u \in UUIDs : HbCount(u, {"loop"}) <= 1)
    /\ [][\A h \in Hbs :
            (h.pc = "locked" /\ h.uuid \in running /\ Steps(h)) =>
               /\ running' = running
               /\ skydnsRecs' = skydnsRecs
               /\ CopiesIn([h EXCEPT !.pc = "noop"], hbs')
                    = CopiesIn([h EXCEPT !.pc = "noop"], hbs) + 1]_vars

\* C1 witness: a heartbeat of u is in its loop and another invocation for u
\* has returned as a no-op
SingleWriterWitness ==
    \E u \in UUIDs : HbCount(u, {"loop"}) = 1 /\ HbCount(u, {"noop"}) >= 1

\* C2 - Error budget: a heartbeat all of whose Update calls fail leaves its
\* loop only after exactly 11 Update calls (errorCount counts them).
ErrorBudget ==
    [][\A h \in Hbs : \A g \in BagToSet(hbs') :
          (h.pc = "loop" /\ ~h.ok /\ Steps(h) /\ g.uuid = h.uuid
             /\ g.pc = "exit" /\ CopiesIn(g, hbs') > CopiesIn(g, hbs))
          => g.errorCount = 11]_vars

\* C3 - a heartbeat that has left its loop has seen at least 10 failed
\* Updates: one failed Update does not end it.
AbortOnlyAfterTenErrors ==
    \A h \in Hbs : h.pc \in {"exit", "exitLocked"} => h.errorCount >= 10

\* the event channel is drained and every worker is back at "range c"
Drained ==
    /\ Alive
    /\ proc[Main].pc = "wait"
    /\ taken = Len(stream)
    /\ \A w \in Workers : proc[w].pc \in {"idle", "exited"}

\* the handlers of all events returned nil
NoHandlerError ==
    \A i \in 1..Len(stream) : hist[EventItem(i)].err = "nil"

\* no heartbeat of u is about to enter or to leave, and one in its loop has
\* a record to refresh: further ticks can go on without changing anything
HbSettled(u) ==
    /\ HbCount(u, {"start", "locked", "exit", "exitLocked"}) = 0
    /\ HbCount(u, {"loop"}) > 0 => u \in skydnsRecs

\* C4 - Convergence: once a stream of events about u that ends in die, stop
\* or kill has been handled (here: without any handler error) and the
\* heartbeats of u have had their ticks, u has no record and no heartbeat.
Convergence ==
    \A u \in UUIDs :
       ( /\ Drained
         /\ NoHandlerError
         /\ Len(stream) > 0
         /\ stream[Len(stream)].ContainerId = u
         /\ IsRemove(stream[Len(stream)].Status)
         /\ HbSettled(u) )
       => (u \notin skydnsRecs /\ u \notin running)

\* C5 - Order-insensitivity: after a start and a later stop of u, both
\* handled without error by the workers, u has no record; after a stop and
\* a later start, u has a record.
OrderInsensitive ==
    ( /\ Drained
      /\ NoHandlerError
      /\ Len(stream) = 2
      /\ stream[1].ContainerId = stream[2].ContainerId )
    => LET u == stream[1].ContainerId
           registered(i) == hist[EventItem(i)].out \in {"added", "conflict"}
       IN /\ (IsAdd(stream[1].Status) /\ registered(1)
                /\ IsRemove(stream[2].Status)) => u \notin skydnsRecs
          /\ (IsRemove(stream[1].Status) /\ IsAdd(stream[2].Status)
                /\ registered(2)) => u \in skydnsRecs

\* the uuids whose Add answered ok
AddedUUIDs == {ItemUUID(k) : k \in {j \in 1..NItems : hist[j].out = "added"}}

\* two start/restart events of u, the first Add answering ok, the second
\* ConflictingUUID, their heartbeat invocations past the check-and-insert
TwoStartsHandled ==
    /\ Len(stream) = 2
    /\ IsAdd(stream[1].Status) /\ IsAdd(stream[2].Status)
    /\ stream[1].ContainerId = stream[2].ContainerId
    /\ hist[EventItem(1)].out = "added"
    /\ hist[EventItem(2)].out = "conflict"
    /\ HbCount(stream[1].ContainerId, {"start", "locked"}) = 0

\* C6 - Idempotent add: after two start events of u in a row (first Add ok,
\* second Add ConflictingUUID) the registry holds what it held after the
\* first, and, as long as no Update of the heartbeat has failed, exactly one
\* heartbeat of u is in its loop, u is in the LiveSet and the second
\* invocation was a no-op.
IdempotentAdd ==
    TwoStartsHandled =>
       LET u == stream[1].ContainerId IN
       /\ skydnsRecs = initRecs \cup AddedUUIDs
       /\ u \in skydnsRecs
       /\ HbCount(u, {"exit", "exitLocked", "done"}) = 0 =>
             /\ HbCount(u, {"loop"}) = 1
             /\ HbCount(u, {"noop"}) = 1
             /\ u \in running

\* C6 witness: both starts handled, one heartbeat in its loop
IdempotentAddWitness ==
    /\ TwoStartsHandled
    /\ HbCount(stream[1].ContainerId, {"loop"}) = 1
    /\ HbCount(stream[1].ContainerId, {"noop"}) = 1

\* C7 - Conflicting add: a goroutine whose Add answered ConflictingUUID
\* (it is at the Update of sendService) issues that one Update, and whatever
\* the Update answers it spawns the heartbeat of the uuid and returns nil;
\* the registry is left as it is.
ConflictingAdd ==
    [][\A p \in Procs :
         (proc[p].pc = "update" /\ proc'[p] # proc[p]) =>
            LET k == proc[p].item
                u == ItemUUID(k)
            IN /\ proc'[p].pc \in {"idle", "restore"}
               /\ hist'[k] = [out |-> "conflict", err |-> "nil"]
               /\ CopiesIn(NewHb(u), hbs') = CopiesIn(NewHb(u), hbs) + 1
               /\ skydnsRecs' = skydnsRecs
               /\ exitCode' = exitCode]_vars

\* C7 witness: a conflicting Add during restore and one during an event
ConflictingAddWitness ==
    /\ \E k \in 1..Len(containers) : hist[k].out = "conflict"
    /\ \E i \in 1..Len(stream) : hist[EventItem(i)].out = "conflict"

\* C8 - Untagged-image skip: the step in which FetchContainer answers
\* ErrImageNotTagged for an item ends its handling with a nil error: no
\* goroutine goes on to createService/Add/Update, no heartbeat is spawned,
\* the registry, the LiveSet and the process are left as they are.
UntaggedSkip ==
    [][\A k \in 1..NItems :
         (hist[k].out = "none" /\ hist'[k].out = "notTagged") =>
            /\ hist'[k].err = "nil"
            /\ \A p \in Procs :
                  proc'[p].pc \in {"add", "update"} => proc'[p] = proc[p]
            /\ hbs' = hbs
            /\ skydnsRecs' = skydnsRecs
            /\ running' = running
            /\ exitCode' = exitCode]_vars

\* C8 witness: an untagged container in restore and an untagged start event
UntaggedSkipWitness ==
    /\ \E k \in 1..Len(containers) : hist[k].out = "notTagged"
    /\ \E i \in 1..Len(stream) : hist[EventItem(i)].out = "notTagged"

AfterRestore ==
    /\ Alive
    /\ proc[Main].pc = "restore"
    /\ ri = Len(containers)

\* C10 - Restore skips per-container failures: when restoreContainers is
\* through, every container has been handled; one whose Add answered ok or
\* ConflictingUUID has a record and its own heartbeat (live unless an Update
\* of it has failed since); an untagged, fetch-failed or Add-failed one has
\* no heartbeat and no record that restore put there.
RestoreSkipsFailures ==
    AfterRestore =>
       \A k \in 1..Len(containers) :
          LET u == containers[k] IN
          /\ hist[k].out \in
                {"added", "conflict", "notTagged", "fetchErr", "addErr"}
          /\ hist[k].out \in {"added", "conflict"} =>
                /\ u \in skydnsRecs
                /\ HbCount(u, {"start", "locked", "loop", "exit",
                               "exitLocked", "done"}) = 1
                /\ HbCount(u, {"noop"}) = 0
          /\ hist[k].out \in {"notTagged", "fetchErr", "addErr"} =>
                /\ HbCount(u, {"start", "locked", "loop", "exit",
                               "exitLocked", "done", "noop"}) = 0
                /\ u \in skydnsRecs => u \in initRecs

\* C10 witness: the first container failed, the second is registered with a
\* heartbeat in its loop
RestoreSkipsFailuresWitness ==
    /\ AfterRestore
    /\ Len(containers) = 2
    /\ hist[1].out \in {"fetchErr", "addErr"}
    /\ hist[2].out = "added"
    /\ HbCount(containers[2], {"loop"}) = 1

\* C11 - Policy failure is fatal: the step in which createService fails for
\* an item (a container of restore or a start/restart event) ends the process
\* with status 1 and writes nothing to the registry, starts no heartbeat and
\* moves no goroutine to Add; and once the process has exited no goroutine
\* takes a step: no Add for that item, no later event is handled.
PolicyFatal ==
    /\ [][\A k \in 1..NItems :
            (hist[k].out = "none" /\ hist'[k].out = "policyErr") =>
               /\ exitCode' = 1
               /\ skydnsRecs' = skydnsRecs
               /\ hbs' = hbs
               /\ taken' = taken
               /\ proc' = proc]_vars
    /\ [][exitCode = Running]_vars

\* C11 witness: createService failed for an event while another worker was
\* in the middle of handling an event of its own
PolicyFatalWitness ==
    /\ exitCode = 1
    /\ \E i \in 1..Len(stream) : hist[EventItem(i)].out = "policyErr"
    /\ \E w \in Workers : /\ proc[w].pc \in {"fetch", "add", "delete"}
                          /\ hist[proc[w].item].out = "none"

\* C12 - A die, stop or kill event issues exactly one Delete and leaves the
\* LiveSet alone: taking the event only sends the worker to removeService;
\* the Delete step ends the handling of the event and changes neither the
\* LiveSet nor any heartbeat goroutine; a heartbeat in its loop can always
\* tick, and its tick is a call of Update.
DeleteLeavesLiveSet ==
    /\ [][\A w \in Workers :
            /\ (proc[w].pc = "idle" /\ proc'[w].pc = "delete") =>
                  /\ IsRemove(stream[taken'].Status)
                  /\ proc'[w].item = EventItem(taken')
                  /\ skydnsRecs' = skydnsRecs
                  /\ running' = running
                  /\ hbs' = hbs
            /\ (proc[w].pc = "delete" /\ proc'[w] # proc[w]) =>
                  /\ proc'[w].pc = "idle"
                  /\ hist[proc[w].item].out = "none"
                  /\ hist'[proc[w].item].out \in {"deleted", "deleteErr"}
                  /\ skydnsRecs' \in {skydnsRecs,
                                      skydnsRecs \ {ItemUUID(proc[w].item)}}
                  /\ running' = running
                  /\ hbs' = hbs]_vars
    /\ [](\A h \in Hbs :
            (Alive /\ h.pc = "loop") =>
               /\ h.errorCount <= 10
               /\ ENABLED HbTick(h))

\* C12 witness: the Delete of a stop event answered ok while the heartbeat of
\* the uuid is in its loop: the uuid is still in the LiveSet
DeleteLeavesLiveSetWitness ==
    \E i \in 1..Len(stream) :
       LET u == stream[i].ContainerId IN
       /\ hist[EventItem(i)].out = "deleted"
       /\ u \notin skydnsRecs
       /\ u \in running
       /\ HbCount(u, {"loop"}) = 1

\* the number of heartbeat goroutines ever spawned and still on record
HbTotal == BagCardinality(hbs)

\* C13 - Event-handling errors are consumed: the step in which the handler
\* of an event ends with an error (FetchContainer failed other than
\* ErrImageNotTagged, Add failed other than ErrConflictingUUID, Delete failed)
\* starts no heartbeat, leaves the LiveSet, the registry and the process as
\* they are, and puts the same worker back at the channel; and a heartbeat is
\* spawned only by the step of an Add that answered ok or of the Update that
\* follows ErrConflictingUUID.
ErrorsConsumed ==
    [][/\ \A w \in Workers :
            (proc[w].pc \in {"fetch", "add", "delete"}
               /\ hist[proc[w].item].err = "none"
               /\ hist'[proc[w].item].err = "err") =>
               /\ hist'[proc[w].item].out
                     \in {"fetchErr", "addErr", "deleteErr"}
               /\ proc'[w] = [pc |-> "idle", item |-> 0]
               /\ hbs' = hbs
               /\ running' = running
               /\ skydnsRecs' = skydnsRecs
               /\ taken' = taken
               /\ exitCode' = exitCode
       /\ (hbs' # hbs /\ BagCardinality(hbs') > HbTotal) =>
             \E p \in Procs :
                /\ proc[p].pc \in {"add", "update"}
                /\ proc'[p] # proc[p]
                /\ hist'[proc[p].item].out \in {"added", "conflict"}
                /\ hbs' = hbs (+)
                             SetToBag({NewHb(ItemUUID(proc[p].item))})]_vars

\* C13 witness: the first event ended with an error and the worker that
\* handled it (the first one) is handling the second event
ErrorsConsumedWitness ==
    /\ Len(stream) = 2
    /\ hist[EventItem(1)].err = "err"
    /\ proc[1].item = EventItem(2)
    /\ proc[1].pc \in {"fetch", "add", "delete"}

\* the workers holding event i
Holders(i) == {w \in Workers : proc[w].item = EventItem(i)}

\* a policy failure has ended the process while an event was handled
FatalInEvent ==
    /\ exitCode = 1
    /\ \E i \in 1..Len(stream) : hist[EventItem(i)].out = "policyErr"

LiveSetMatchesHeartbeats ==
    \A u \in UUIDs : (u \in running) <=> (HbCount(u, {"loop"}) >= 1)

\* every earlier heartbeat of u has aborted and returned, and a goroutine
\* spawned for u since then has not yet reached the check-and-insert
ReentryReady(u) ==
    /\ Alive
    /\ HbCount(u, {"done"}) >= 1
    /\ HbCount(u, {"start"}) >= 1
    /\ HbCount(u, {"locked", "loop", "exit", "exitLocked"}) = 0

\* C16 - Re-entry after abort: a heartbeat goroutine of u comes into being
\* only in a step of sendService for u (an Add that answered ok, or the
\* Update after ErrConflictingUUID), never by itself; when the heartbeat of u
\* has aborted and returned, u is not in the LiveSet, so the heartbeat such a
\* later event or restore spawns gets into its loop, u back in the LiveSet.
Reentry ==
    /\ [][\A u \in UUIDs :
            (HbCount(u, {"start", "locked", "loop"}) = 0
               /\ CopiesIn(NewHb(u), hbs') > 0) =>
               \E p \in Procs :
                  /\ proc[p].pc \in {"add", "update"}
                  /\ ItemUUID(proc[p].item) = u
                  /\ proc'[p] # proc[p]
                  /\ hist'[proc[p].item].out \in {"added", "conflict"}]_vars
    /\ [](\A u \in UUIDs : ReentryReady(u) => u \notin running)
    /\ \A u \in UUIDs :
          ReentryReady(u) ~>
             (~Alive \/ (u \in running /\ HbCount(u, {"loop"}) = 1))

\* C16 witness: a heartbeat of u has aborted and returned, and a later one
\* is in its loop
ReentryWitness ==
    \E u \in UUIDs :
       /\ HbCount(u, {"done"}) >= 1
       /\ HbCount(u, {"loop"}) = 1
       /\ u \in running

\* C17 - Beat derivation: validateSettings leaves the TTL and a Beat of 1 or
\* more as they are, and replaces a Beat below 1 by TTL - q, where q is TTL/4
\* truncated toward zero (TTL = 4q + r, |r| < 4, r of the sign of TTL); Beat 0
\* with TTL 60 gives 45.
BeatDerivation ==
    [][proc[Main].pc = "validate" =>
         /\ params'.TTL = params.TTL
         /\ params.Beat >= 1 => params'.Beat = params.Beat
         /\ params.Beat < 1 =>
               \E r \in -3..3 :
                  /\ params.TTL = 4 * (params.TTL - params'.Beat) + r
                  /\ r > 0 => params.TTL > 0
                  /\ r < 0 => params.TTL < 0
         /\ (params.Beat = 0 /\ params.TTL = 60) => params'.Beat = 45]_vars

\* C17 witness: validateSettings has derived 45 from the TTL 60, and the
\* daemon is running with it
BeatDerivationWitness ==
    /\ proc[Main].pc = "wait"
    /\ params.TTL = 60
    /\ params.Beat = 45

\* nothing of the daemon's work has happened yet
NothingDone ==
    /\ built = {}
    /\ skydnsRecs = initRecs
    /\ hbs = EmptyBag
    /\ running = {}
    /\ taken = 0
    /\ ri = 0
    /\ \A k \in 1..NItems : hist[k] = [out |-> "none", err |-> "none"]
    /\ \A w \in Workers : proc[w].pc = "none"

\* C18 - Bootstrap validation: validateSettings runs before anything else;
\* with an empty Domain, or with both a url and a container name, its step
\* ends the process with status 1, nothing constructed and nothing done, and
\* no step follows; with neither url nor name (and a Domain) the url is the
\* one built from the environment variable and main goes on to newRuntime.
BootstrapValidation ==
    /\ [](proc[Main].pc = "validate" => NothingDone)
    /\ [][proc[Main].pc = "validate" =>
            /\ (params.Domain = ""
                  \/ (params.SkydnsUrl # ""
                        /\ params.SkydnsContainerName # ""))
               => (exitCode' = 1 /\ NothingDone' /\ proc' = proc)
            /\ (params.Domain # "" /\ params.SkydnsUrl = ""
                  /\ params.SkydnsContainerName = "")
               => /\ params'.SkydnsUrl = "env"
                  /\ proc'[Main].pc = "newRuntime"
                  /\ exitCode' = Running
                  /\ NothingDone']_vars
    /\ [][exitCode = Running]_vars

\* C18 witness: the process has ended in validateSettings for its empty
\* Domain, after the url was built from the environment variable
BootstrapValidationWitness ==
    /\ exitCode = 1
    /\ proc[Main].pc = "validate"
    /\ params.Domain = ""
    /\ params.SkydnsUrl = "env"

\* C19 - An event whose status is none of start, restart, die, stop, kill is
\* ignored: the step that takes it off the channel ends its handling, sends
\* the worker to no FetchContainer, Add, Update or Delete, starts no
\* heartbeat and leaves the LiveSet and the registry as they are.
OtherStatusIgnored ==
    [][(taken' = taken + 1
          /\ stream[taken'].Status
                \notin {"start", "restart", "die", "stop", "kill"}) =>
         /\ hist'[EventItem(taken')] = [out |-> "ignored", err |-> "nil"]
         /\ proc' = proc
         /\ hbs' = hbs
         /\ running' = running
         /\ skydnsRecs' = skydnsRecs
         /\ exitCode' = exitCode]_vars

\* C19 witness: a pause event was ignored and the start event behind it was
\* handled
OtherStatusIgnoredWitness ==
    /\ Len(stream) = 2
    /\ stream[1].Status = "pause"
    /\ hist[EventItem(1)].out = "ignored"
    /\ hist[EventItem(2)].out = "added"

\* C20 - On process shutdown all heartbeat loops terminate: when main has
\* returned after the close of the event stream, the LiveSet is empty and no
\* heartbeat goroutine is in its tick loop.
ShutdownEndsHeartbeats ==
    exitCode = 0 =>
       /\ running = {}
       /\ \A u \in UUIDs : HbCount(u, {"loop"}) = 0

\* C21 - No lost heartbeat: an invocation of heartbeat(u), which sendService
\* starts on every success, returns without entering the loop only when a
\* heartbeat of u is in its tick loop, so that a heartbeat of u is live
\* afterwards under every interleaving.
NoLostHeartbeat ==
    [][\A h \in Hbs :
         (h.pc = "locked" /\ Steps(h)
            /\ CopiesIn(Ended(h, "noop"), hbs')
                 > CopiesIn(Ended(h, "noop"), hbs))
         => HbCount(h.uuid, {"loop"}) >= 1]_vars

\* the heartbeat goroutines between a runningLock.Lock() and its Unlock()
Holding == {h \in Hbs : h.pc \in {"locked", "exitLocked"}}
HoldingCount ==
    IF Holding = {} THEN 0
    ELSE BagCardinality([h \in Holding |-> hbs[h]])

\* C22 - The LiveSet mutex is held only for the check-and-insert and for the
\* deferred delete: the mutex is locked exactly while one heartbeat goroutine
\* is in one of these two regions (never one in its tick loop, never main or
\* a worker); the holder can always take its next step, and that one step
\* makes no registry or docker call and unlocks.
MutexBounded ==
    /\ [](HoldingCount = IF runningLock THEN 1 ELSE 0)
    /\ [](\A h \in Holding :
            Alive => IF h.pc = "locked" THEN ENABLED HbCheck(h)
                     ELSE ENABLED HbDeferDelete(h))
    /\ [][\A h \in Holding :
            Steps(h) => /\ runningLock
                        /\ ~runningLock'
                        /\ skydnsRecs' = skydnsRecs
                        /\ proc' = proc
                        /\ hist' = hist]_vars

\* C22 witness: a heartbeat holds the mutex in its deferred function while
\* another invocation waits at Lock
MutexBoundedWitness ==
    /\ runningLock
    /\ \E h \in Hbs : h.pc = "exitLocked"
    /\ \E h \in Hbs : h.pc = "start"

\* C23 - With Beat unset (below 1) the derived Beat is not clamped: for the
\* TTL 0 validateSettings leaves Beat = 0 (below 0 for a negative TTL, 1 or
\* more only for a TTL of 1 or more), and it goes on with that Beat: the
\* settings are not refused for it.
BeatNotClamped ==
    [][(proc[Main].pc = "validate" /\ params.Beat < 1) =>
         /\ params.TTL = 0 => params'.Beat = 0
         /\ params.TTL < 0 => params'.Beat < 0
         /\ params.TTL >= 1 => params'.Beat >= 1
         /\ (params.Domain # ""
               /\ (params.SkydnsUrl = "" \/ params.SkydnsContainerName = ""))
            => (proc'[Main].pc = "newRuntime" /\ exitCode' = Running)]_vars

\* C23 witness: the daemon has come through its bootstrap with Beat = 0
BeatNotClampedWitness ==
    /\ Alive
    /\ proc[Main].pc = "wait"
    /\ params.TTL = 0
    /\ params.Beat = 0

\* main is past validateSettings: params.Beat is the effective Beat
Validated == proc[Main].pc # "validate"

\* C24 - With an effective Beat of 0 or less a heartbeat that has inserted
\* its uuid into the LiveSet never takes a step again: it calls no Update and
\* never leaves its loop, no uuid ever leaves the LiveSet, every later
\* invocation for a uuid of the LiveSet returns as a no-op, and no heartbeat
\* has ever refreshed a record (the Update that sendService issues itself
\* after ErrConflictingUUID is the only refresh left).
BeatZeroNeverTicks ==
    /\ [][(Validated /\ params.Beat <= 0) =>
            /\ \A h \in Hbs : h.pc = "loop" => ~Steps(h)
            /\ running \subseteq running'
            /\ \A h \in Hbs :
                  (h.pc = "locked" /\ h.uuid \in running /\ Steps(h)) =>
                     CopiesIn(Ended(h, "noop"), hbs')
                       = CopiesIn(Ended(h, "noop"), hbs) + 1]_vars
    /\ []((Validated /\ params.Beat <= 0) =>
            /\ \A h \in Hbs :
                  h.pc \notin {"exit", "exitLocked", "done"} /\ ~h.ok
            /\ \A u \in UUIDs :
                  HbCount(u, {"loop"}) = IF u \in running THEN 1 ELSE 0)

\* a handler calls updateService for a uuid that is in the LiveSet and has
\* its record
HandlerRefresh(p) ==
    /\ proc[p].pc = "update"
    /\ proc'[p] # proc[p]
    /\ ItemUUID(proc[p].item) \in running \cap skydnsRecs

\* C24 as stated: on top of the above, once a uuid is in the LiveSet nothing
\* refreshes its record, the handler of a start or restart event included.
BeatZeroNeverRefreshed ==
    /\ BeatZeroNeverTicks
    /\ [][(Validated /\ params.Beat <= 0) =>
            \A p \in Procs : ~HandlerRefresh(p)]_vars

\* C24 witness: Beat is 0, the heartbeat restore started is in its loop, the
\* start event was handled and its heartbeat invocation returned as a no-op
BeatZeroNeverTicksWitness ==
    /\ Validated
    /\ params.Beat = 0
    /\ hist[EventItem(1)].out = "conflict"
    /\ HbCount(1, {"loop"}) = 1
    /\ HbCount(1, {"noop"}) = 1
    /\ 1 \in running

====
